---------------------------- MODULE Spec2Model ----------------------------
(***************************************************************************)
(* A model of scipy/integrate/_cubature.py: the adaptive subdivision       *)
(* driver cubature(), the heap of CubatureRegion objects it refines, the   *)
(* constructors of the rule catalog and the dimension check of             *)
(* _apply_rule (specification Spec); the nodes and weights the rules of    *)
(* the catalog build, ErrorFromDifference and Product (CatalogSpec); the   *)
(* generator _distinct_permutations (PermutationsSpec).                    *)
(*                                                                         *)
(* Arithmetic is exact.  Coordinates are integers counted in units of      *)
(* 1/Unit of the caller's interval, so that every midpoint (a + b)/2 that  *)
(* a run within the bounds can form is again an integer.  The values a     *)
(* rule returns for a region (estimate and error arrays with one entry per *)
(* output component) are drawn from RuleValues at every evaluation: the    *)
(* driver never looks inside the rule.                                     *)
(***************************************************************************)
EXTENDS Integers, Sequences, FiniteSets, TLC

VARIABLES
    pc,                 \* position of the program
    op,                 \* the operation being run
    args,               \* the arguments of the constructor that was called
    rule,               \* the rule object (NoRule until one is constructed)
    a, b,               \* the bounds handed to the operation, as arrays
    rtol, atol,         \* tolerances of cubature()
    max_subdivisions,   \* budget of cubature() (Inf once None is replaced)
    est, err,           \* the global accumulator of cubature()
    regions,            \* the heap (a Python list) of CubatureRegion
    region_k,           \* the region popped in the current iteration
    pending,            \* subregions the for loop has not yet visited
    subdivisions,       \* counter of cubature()
    success,            \* flag of cubature()
    outcome,            \* how the operation ended: nothing yet, raise, return
    result,             \* <<>> or <<the CubatureResult returned>>
    fEvals,             \* number of times the integrand f has been called
    items,              \* the list _distinct_permutations rearranges
    yielded             \* the tuples _distinct_permutations has yielded

vars == <<pc, op, args, rule, a, b, rtol, atol, max_subdivisions, est, err,
          regions, region_k, pending, subdivisions, success, outcome, result,
          fEvals, items, yielded>>

---------------------------------------------------------------------------
(* Bounds of the model *)

\* largest finite subdivision budget tried, and the number of subdivisions
\* after which a run with an unbounded budget is no longer followed
MaxSubdivisions == 3

\* largest number of regions a followed run may hold in its working set
MaxRegions == 7

\* coordinates are counted in units of 1/Unit
Unit == 2 ^ MaxSubdivisions

\* output components of the integrand (the arrays est and err have this shape)
Comps == {1, 2}

\* np.inf, the value that replaces max_subdivisions=None
Inf == 1000000

---------------------------------------------------------------------------
(* Arrays *)

\* an ndarray as cubature() sees it after np.asarray: its rank and, for a
\* rank-1 array, its entries
Arr(rank, v) == [ndim |-> rank, v |-> v]

Zero == [i \in Comps |-> 0]

Abs(x) == IF x < 0 THEN -x ELSE x

VAdd(x, y) == [i \in Comps |-> x[i] + y[i]]

VSub(x, y) == [i \in Comps |-> x[i] - y[i]]

\* the largest element of a finite non-empty set of integers
SetMax(S) == CHOOSE x \in S : \A y \in S : y <= x

\* _max_norm(x): np.max(np.abs(x))
MaxNorm(x) == SetMax({Abs(x[i]) : i \in Comps})

\* the element of a one-element set: Only({F(x) : x \in {e}}) is F(e) with
\* e evaluated once, which keeps nested expressions linear for TLC
Only(S) == CHOOSE x \in S : TRUE

---------------------------------------------------------------------------
(* CubatureRegion and the heap *)

\* CubatureRegion(estimate, error, a, b).  shared tells that the estimate and
\* error arrays of the region are the very objects the driver accumulates
\* into (the region built from est and err before the loop), so that an
\* in-place update of the accumulator is seen through the region.
CubatureRegion(estimate, error, ra, rb, shared) ==
    [estimate |-> estimate, error |-> error, a |-> ra, b |-> rb,
     shared |-> shared]

NoRegion == CubatureRegion(Zero, Zero, <<>>, <<>>, FALSE)

\* what an in-place update of the accumulator does to a region
Sync(r, e, er) ==
    IF r.shared THEN [r EXCEPT !.estimate = e, !.error = er] ELSE r

SyncAll(heap, e, er) == [i \in 1..Len(heap) |-> Sync(heap[i], e, er)]

Lt_inverted(self, other) == MaxNorm(self.error) < MaxNorm(other.error)

\* CubatureRegion.__lt__
Lt(self, other) == MaxNorm(self.error) > MaxNorm(other.error)

\* heapq._siftdown(heap, startpos, pos); positions are Python's, from 0
RECURSIVE SiftdownLoop(_, _, _, _)
SiftdownLoop(heap, startpos, pos, newitem) ==
    IF pos > startpos
    THEN LET parentpos == (pos - 1) \div 2
             parent == heap[parentpos + 1]
         IN  IF Lt(newitem, parent)
             THEN Only({ SiftdownLoop(h, startpos, parentpos, newitem) :
                           h \in {[heap EXCEPT ![pos + 1] = parent]} })
             ELSE [heap EXCEPT ![pos + 1] = newitem]
    ELSE [heap EXCEPT ![pos + 1] = newitem]

Siftdown(heap, startpos, pos) ==
    SiftdownLoop(heap, startpos, pos, heap[pos + 1])

\* heapq._siftup(heap, pos): bubble the smaller child up until a leaf is
\* hit, then sift the displaced item down to its place
RECURSIVE SiftupLoop(_, _, _, _)
SiftupLoop(heap, startpos, pos, newitem) ==
    LET endpos == Len(heap)
        childpos == 2 * pos + 1
        rightpos == childpos + 1
        pick == IF rightpos < endpos
                   /\ ~Lt(heap[childpos + 1], heap[rightpos + 1])
                THEN rightpos ELSE childpos
    IN  IF childpos < endpos
        THEN Only({ SiftupLoop(h, startpos, p, newitem) :
                      h \in {[heap EXCEPT ![pos + 1] = heap[pick + 1]]},
                      p \in {pick} })
        ELSE Only({ Siftdown(h, startpos, pos) :
                      h \in {[heap EXCEPT ![pos + 1] = newitem]} })

Siftup(heap, pos) == SiftupLoop(heap, pos, pos, heap[pos + 1])

\* heapq.heappush(heap, item): the list after the push
Heappush(heap, item) ==
    Only({ Siftdown(h, 0, Len(h) - 1) : h \in {Append(heap, item)} })

Heappop_peek(heap) == [item |-> heap[1], heap |-> heap]

\* heapq.heappop(heap): the item returned and the list after the pop
Heappop(heap) ==
    LET lastelt == heap[Len(heap)]
        rest == SubSeq(heap, 1, Len(heap) - 1)
    IN  IF rest # <<>>
        THEN [item |-> rest[1],
              heap |-> Only({ Siftup(h, 0) :
                                h \in {[rest EXCEPT ![1] = lastelt]} })]
        ELSE [item |-> lastelt, heap |-> rest]

---------------------------------------------------------------------------
(* How an operation ends *)

NoOutcome == [kind |-> "none", exc |-> "", msg |-> "", value |-> Zero]

Raise(exc, msg) == [kind |-> "raise", exc |-> exc, msg |-> msg, value |-> Zero]

Return(value) == [kind |-> "return", exc |-> "", msg |-> "", value |-> value]

---------------------------------------------------------------------------
(* The rule catalog: constructors *)

Rule(cls, npoints, open, ndim, degree, lower_degree, lower_npoints) ==
    [cls |-> cls, npoints |-> npoints, open |-> open, ndim |-> ndim,
     degree |-> degree, lower_degree |-> lower_degree,
     lower_npoints |-> lower_npoints]

NoRule == Rule("none", 0, FALSE, 0, 0, 0, 0)

Constructed(r) == [outcome |-> Return(Zero), rule |-> r]

Rejected(exc, msg) == [outcome |-> Raise(exc, msg), rule |-> NoRule]

NewtonCotesInit_clamp(npoints, open) ==
    Constructed(Rule("NewtonCotes", IF npoints < 2 THEN 2 ELSE npoints,
                     open, 0, 0, 0, 0))

\* NewtonCotes.__init__
NewtonCotesInit(npoints, open) ==
    IF npoints < 2
    THEN Rejected("ValueError", "npoints")
    ELSE Constructed(Rule("NewtonCotes", npoints, open, 0, 0, 0, 0))

\* GaussLegendre.__init__
GaussLegendreInit(npoints) ==
    IF npoints < 2
    THEN Rejected("ValueError", "npoints")
    ELSE Constructed(Rule("GaussLegendre", npoints, FALSE, 0, 0, 0, 0))

\* GaussKronrod.__init__: the lower rule is GaussLegendre(npoints // 2)
GaussKronrodInit(npoints) ==
    IF npoints # 15 /\ npoints # 21
    THEN Rejected("ValueError", "gauss_kronrod_npoints")
    ELSE LET lower == GaussLegendreInit(npoints \div 2)
         IN  IF lower.outcome.kind = "raise"
             THEN lower
             ELSE Constructed(Rule("GaussKronrod", npoints, FALSE, 0, 0, 0,
                                   lower.rule.npoints))

\* GenzMalik.__init__
GenzMalikInit(ndim, degree, lower_degree) ==
    IF ndim < 2
    THEN Rejected("ValueError", "genz_malik_ndim")
    ELSE IF degree # 7 \/ lower_degree # 5
         THEN Rejected("NotImplementedError", "")
         ELSE Constructed(Rule("GenzMalik", 0, FALSE, ndim, degree,
                               lower_degree, 0))

\* the classes that inherit error_estimate from ErrorFromDifference; every
\* other class of the catalog inherits Cubature.error_estimate
HasErrorEstimate(r) == r.cls \in {"GaussKronrod", "GenzMalik"}

\* nodes.shape[0] of the rule's (nodes, weights) pair: the one-dimensional
\* rules shape their nodes (1, npoints), GenzMalik (ndim, nodes_size)
RuleNdim(r) == IF r.cls = "GenzMalik" THEN r.ndim ELSE 1

---------------------------------------------------------------------------
(* Exact numbers: the reference nodes and weights are rationals n/d *)

RECURSIVE Gcd(_, _)
Gcd(x, y) ==
    IF y = 0 THEN x ELSE Only({ Gcd(p, r) : p \in {y}, r \in {x % y} })

\* the rational n/d in lowest terms with a positive denominator (d # 0)
Rat(n, d) ==
    Only({ Only({ [n |-> sgn * (p \div g), d |-> sgn * (q \div g)] :
                    g \in {Gcd(Abs(p), Abs(q))},
                    sgn \in {IF q < 0 THEN -1 ELSE 1} }) :
             p \in {n}, q \in {d} })

RatInt(x) == [n |-> x, d |-> 1]

\* x + y over the least common denominator
RatAdd(x, y) ==
    Only({ Only({ Rat(p.n * (q.d \div g) + q.n * (p.d \div g),
                      (p.d \div g) * q.d) :
                    g \in {Gcd(p.d, q.d)} }) :
             p \in {x}, q \in {y} })

RatNeg(x) == Only({ [n |-> -p.n, d |-> p.d] : p \in {x} })

RatSub(x, y) == RatAdd(x, RatNeg(y))

RatMul(x, y) == Only({ Rat(p.n * q.n, p.d * q.d) : p \in {x}, q \in {y} })

\* x / y for y # 0
RatDiv(x, y) == Only({ Rat(p.n * q.d, p.d * q.n) : p \in {x}, q \in {y} })

RatLt(x, y) == x.n * y.d < y.n * x.d

RECURSIVE RatPow(_, _)
RatPow(x, i) == IF i = 0 THEN RatInt(1) ELSE RatMul(x, RatPow(x, i - 1))

\* the sum of a sequence of rationals, by halves
RECURSIVE RatSum(_)
RatSum(s) ==
    IF s = <<>> THEN RatInt(0)
    ELSE IF Len(s) = 1 THEN s[1]
         ELSE \* split in the middle
              LET h == Len(s) \div 2
              IN  Only({ RatAdd(x, y) :
                           x \in {RatSum(SubSeq(s, 1, h))},
                           y \in {RatSum(SubSeq(s, h + 1, Len(s)))} })

RECURSIVE RatProd(_)
RatProd(s) == IF s = <<>> THEN RatInt(1) ELSE RatMul(Head(s), RatProd(Tail(s)))

\* the sequence s without its element at position j
Without(s, j) == SubSeq(s, 1, j - 1) \o SubSeq(s, j + 1, Len(s))

\* determinant of a square matrix of rationals kept as rows, expanded
\* along the first row
RECURSIVE Det(_)
Det(mat) ==
    IF mat = <<>> THEN RatInt(1)
    ELSE RatSum([j \in 1..Len(mat) |->
            RatMul(IF j % 2 = 1 THEN mat[1][j] ELSE RatNeg(mat[1][j]),
                   Det([i \in 1..(Len(mat) - 1) |-> Without(mat[i + 1], j)]))])

\* np.linalg.solve(mat, rhs): the solution of mat x = rhs, or LinAlgError
\* when mat is singular
Solve(mat, rhs) ==
    LET d == Det(mat)
    IN  IF d.n = 0 THEN Raise("LinAlgError", "singular")
        ELSE [kind |-> "return", exc |-> "", msg |-> "",
              value |-> [j \in 1..Len(mat) |->
                  RatDiv(Det([i \in 1..Len(mat) |->
                                [mat[i] EXCEPT ![j] = rhs[i]]]), d)]]

---------------------------------------------------------------------------
(* NewtonCotes.rule *)

\* np.linspace(start, stop, num) for num >= 2
Linspace(start, stop, num) ==
    [j \in 1..num |->
        RatAdd(start, RatMul(RatInt(j - 1),
                             RatDiv(RatSub(stop, start), RatInt(num - 1))))]

\* the nodes of NewtonCotes.rule, before the reshape to (1, npoints)
NewtonCotesNodes(npoints, open) ==
    IF open
    THEN LET h == Rat(2, npoints)
         IN  Linspace(RatAdd(RatInt(-1), h), RatSub(RatInt(1), h), npoints)
    ELSE Linspace(RatInt(-1), RatInt(1), npoints)

\* _newton_cotes_weights(points)
NewtonCotesWeights(points) ==
    LET order == Len(points) - 1
        vander == [i \in 1..(order + 1) |->
                     [j \in 1..(order + 1) |-> RatPow(points[j], i - 1)]]
        rhs == [i \in 1..(order + 1) |->
                  Rat(1 - (-1) ^ i, 2 * i)]
        solved == Solve(vander, rhs)
    IN  IF solved.kind = "raise" THEN solved
        ELSE [solved EXCEPT !.value =
                 [j \in 1..Len(points) |-> RatMul(RatInt(2), solved.value[j])]]

\* do nodes of NewtonCotes.rule coincide: the nodes of np.linspace are
\* equally spaced, so two of them are equal exactly when its start and its
\* stop are
NodesCoincide(npoints, open) ==
    open /\ RatAdd(RatInt(-1), Rat(2, npoints))
              = RatSub(RatInt(1), Rat(2, npoints))

\* evaluating self.rule: NewtonCotes.rule raises what np.linalg.solve
\* raises (LinAlgError) on the Vandermonde matrix of its nodes, which is
\* singular exactly when two nodes coincide; the other rules of the catalog
\* always build
RuleError(r) ==
    IF r.cls = "NewtonCotes" /\ NodesCoincide(r.npoints, r.open)
    THEN Raise("LinAlgError", "singular")
    ELSE NoOutcome

\* numpy.linalg.LinAlgError is a subclass of ValueError
ValueErrors == {"ValueError", "LinAlgError"}

---------------------------------------------------------------------------
(* Evaluating a rule *)

Evaluated(o, n) == [outcome |-> o, fcalls |-> n]

ApplyRule_onlyA(value, av, bv, rule_ndim) ==
    IF rule_ndim # Len(av)
    THEN Evaluated(Raise("ValueError", "dimension"), 0)
    ELSE Evaluated(Return(value), 1)

\* _apply_rule(f, a, b, rule): value is what the weighted sum of f over the
\* mapped nodes comes to; f is called once, after the dimension check
ApplyRule(value, av, bv, rule_ndim) ==
    LET a_ndim == Len(av)
        b_ndim == Len(bv)
    IN  IF rule_ndim # a_ndim \/ rule_ndim # b_ndim
        THEN Evaluated(Raise("ValueError", "dimension"), 0)
        ELSE Evaluated(Return(value), 1)

\* FixedCubature.estimate: self.rule is evaluated, then _apply_rule called
Estimate(r, value, av, bv) ==
    IF RuleError(r).kind = "raise"
    THEN Evaluated(RuleError(r), 0)
    ELSE ApplyRule(value, av, bv, RuleNdim(r))

\* ErrorFromDifference.error_estimate (np.abs of the rule applied to the
\* concatenated nodes), or Cubature.error_estimate for the other classes
ErrorEstimate(r, value, av, bv) ==
    IF HasErrorEstimate(r)
    THEN LET applied == ApplyRule(value, av, bv, RuleNdim(r))
         IN  IF applied.outcome.kind = "raise"
             THEN applied
             ELSE Evaluated(Return([i \in Comps |->
                                      Abs(applied.outcome.value[i])]),
                            applied.fcalls)
    ELSE Evaluated(Raise("NotImplementedError", ""), 0)

---------------------------------------------------------------------------
(* Bisection *)

\* itertools.product(*rows): the tuples in the order itertools yields them
RECURSIVE Product(_)
Product(rows) ==
    IF rows = <<>> THEN << <<>> >>
    ELSE LET first == Head(rows)
             rest == Product(Tail(rows))
             n == Len(rest)
         IN  [i \in 1..(Len(first) * n) |->
                <<first[((i - 1) \div n) + 1]>> \o rest[((i - 1) % n) + 1]]

Zip(x, y) ==
    [i \in 1..(IF Len(x) < Len(y) THEN Len(x) ELSE Len(y)) |-> <<x[i], y[i]>>]

SubregionCoordinates_lowerOnly(ra, rb) ==
    LET m == [i \in 1..Len(ra) |-> (ra[i] + rb[i]) \div 2]
    IN  Zip(Product([i \in 1..Len(ra) |-> <<ra[i], m[i]>>]),
            Product([i \in 1..Len(ra) |-> <<m[i], m[i]>>]))

\* _subregion_coordinates(a, b): the pairs (a_sub, b_sub) in the order the
\* generator yields them
SubregionCoordinates(ra, rb) ==
    LET m == [i \in 1..Len(ra) |-> (ra[i] + rb[i]) \div 2]
    IN  Zip(Product([i \in 1..Len(ra) |-> <<ra[i], m[i]>>]),
            Product([i \in 1..Len(ra) |-> <<m[i], rb[i]>>]))

---------------------------------------------------------------------------
(* Inputs *)

\* what a rule may return for a region: the weighted sum of the rule (est)
\* and the signed difference of the higher and the lower rule (diff)
RuleValues ==
    { [est |-> <<1, 0>>,  diff |-> <<0, 0>>],
      [est |-> <<-1, 1>>, diff |-> <<-1, 0>>],
      [est |-> <<1, 1>>,  diff |-> <<0, 2>>] }

\* rank-1 bounds: one or two axes, including an empty and a reversed interval
LowerBounds == { <<0>>, <<0, 0>> }

UpperBounds == { <<Unit>>, <<0>>, <<-Unit>>, <<Unit, Unit>> }

\* what np.asarray(a), np.asarray(b) may be: rank-1 arrays, a scalar, a matrix
LowerArrays == { Arr(1, v) : v \in LowerBounds } \cup { Arr(0, <<>>) }

UpperArrays == { Arr(1, v) : v \in UpperBounds } \cup { Arr(2, <<>>) }

\* (atol, rtol)
Tolerances == { <<0, 0>>, <<1, 0>>, <<0, 1>> }

NPointsArgs == { 0, 1, 2, 3, 14, 15, 21 }

NdimArgs == { 1, 2, 3 }

DegreeArgs == { <<7, 5>>, <<5, 3>>, <<7, 7>> }

Args(npoints, open, ndim, degree, lower_degree) ==
    [npoints |-> npoints, open |-> open, ndim |-> ndim, degree |-> degree,
     lower_degree |-> lower_degree]

NoArgs == Args(0, FALSE, 0, 0, 0)

\* the regions a run with budget n on d axes can come to hold
RegionsNeeded(n, d) == 1 + (IF n < 1 THEN 1 ELSE n) * (2 ^ d - 1)

---------------------------------------------------------------------------
(* The state machine *)

Init ==
    /\ pc = "start"
    /\ op = "none"
    /\ args = NoArgs
    /\ rule = NoRule
    /\ a = Arr(1, <<>>)
    /\ b = Arr(1, <<>>)
    /\ rtol = 0
    /\ atol = 0
    /\ max_subdivisions = 0
    /\ est = Zero
    /\ err = Zero
    /\ regions = <<>>
    /\ region_k = NoRegion
    /\ pending = <<>>
    /\ subdivisions = 0
    /\ success = TRUE
    /\ outcome = NoOutcome
    /\ result = <<>>
    /\ fEvals = 0
    /\ items = <<>>
    /\ yielded = <<>>

driverVars == <<rtol, atol, max_subdivisions, est, err, regions, region_k,
                pending, subdivisions, success, result>>

\* a constructor call: the rule object exists only if __init__ returns
Construct(cls, ar, c) ==
    /\ pc = "start"
    /\ op' = cls
    /\ args' = ar
    /\ rule' = c.rule
    /\ IF c.outcome.kind = "raise"
       THEN pc' = "done" /\ outcome' = c.outcome
       ELSE pc' = "constructed" /\ outcome' = NoOutcome
    /\ UNCHANGED <<a, b, fEvals>>
    /\ UNCHANGED <<driverVars, items, yielded>>

ConstructNewtonCotes ==
    \E npoints \in NPointsArgs, open \in BOOLEAN :
        Construct("NewtonCotes", Args(npoints, open, 0, 0, 0),
                  NewtonCotesInit(npoints, open))

ConstructGaussLegendre ==
    \E npoints \in NPointsArgs :
        Construct("GaussLegendre", Args(npoints, FALSE, 0, 0, 0),
                  GaussLegendreInit(npoints))

ConstructGaussKronrod ==
    \E npoints \in NPointsArgs :
        Construct("GaussKronrod", Args(npoints, FALSE, 0, 0, 0),
                  GaussKronrodInit(npoints))

ConstructGenzMalik ==
    \E ndim \in NdimArgs, deg \in DegreeArgs :
        Construct("GenzMalik", Args(0, FALSE, ndim, deg[1], deg[2]),
                  GenzMalikInit(ndim, deg[1], deg[2]))

\* rule.estimate(f, a, b) called on its own
CallEstimate ==
    /\ pc = "constructed"
    /\ \E av \in LowerBounds, bv \in UpperBounds, v \in RuleValues :
          LET r == Estimate(rule, v.est, av, bv)
          IN  /\ a' = Arr(1, av)
              /\ b' = Arr(1, bv)
              /\ outcome' = r.outcome
              /\ fEvals' = fEvals + r.fcalls
    /\ op' = "estimate"
    /\ pc' = "done"
    /\ UNCHANGED <<args, rule>>
    /\ UNCHANGED <<driverVars, items, yielded>>

\* rule.error_estimate(f, a, b) called on its own
CallErrorEstimate ==
    /\ pc = "constructed"
    /\ \E av \in LowerBounds, bv \in UpperBounds, v \in RuleValues :
          LET r == ErrorEstimate(rule, v.diff, av, bv)
          IN  /\ a' = Arr(1, av)
              /\ b' = Arr(1, bv)
              /\ outcome' = r.outcome
              /\ fEvals' = fEvals + r.fcalls
    /\ op' = "error_estimate"
    /\ pc' = "done"
    /\ UNCHANGED <<args, rule>>
    /\ UNCHANGED <<driverVars, items, yielded>>

\* cubature(f, a, b, rule, rtol, atol, max_subdivisions), down to the check
\* of the ranks of a and b
CallCubature ==
    /\ pc = "constructed"
    /\ \E av \in LowerArrays, bv \in UpperArrays, tol \in Tolerances,
          none \in BOOLEAN, n \in 0..MaxSubdivisions :
          /\ none => n = 0
          /\ none \/ av.ndim # 1 \/ RegionsNeeded(n, Len(av.v)) <= MaxRegions
          /\ max_subdivisions' = IF none THEN Inf ELSE n
          /\ a' = av
          /\ b' = bv
          /\ atol' = tol[1]
          /\ rtol' = tol[2]
          /\ IF av.ndim # 1 \/ bv.ndim # 1
             THEN pc' = "done" /\ outcome' = Raise("ValueError", "rank")
             ELSE pc' = "estimate" /\ outcome' = NoOutcome
    /\ op' = "cubature"
    /\ UNCHANGED <<args, rule, fEvals, est, err, regions, region_k, pending,
                   subdivisions, success, result, items, yielded>>

ExceptNotImplemented_reraise(raised) == raised

\* except NotImplementedError: raise ValueError(...); any other exception
\* passes through
ExceptNotImplemented(raised) ==
    IF raised.exc = "NotImplementedError"
    THEN Raise("ValueError", "no_error_estimate")
    ELSE raised

\* est = rule.estimate(f, a, b, args, kwargs)
InitialEstimate ==
    /\ pc = "estimate"
    /\ \E v \in RuleValues :
          LET r == Estimate(rule, v.est, a.v, b.v)
          IN  /\ fEvals' = fEvals + r.fcalls
              /\ IF r.outcome.kind = "raise"
                 THEN pc' = "done" /\ outcome' = r.outcome /\ est' = est
                 ELSE pc' = "error" /\ outcome' = outcome
                      /\ est' = r.outcome.value
    /\ UNCHANGED <<op, args, rule, a, b, rtol, atol, max_subdivisions, err,
                   regions, region_k, pending, subdivisions, success, result,
                   items, yielded>>

\* err = rule.error_estimate(...) under the try, then the first region and
\* the counters
InitialError ==
    /\ pc = "error"
    /\ \E v \in RuleValues :
          LET r == ErrorEstimate(rule, v.diff, a.v, b.v)
          IN  /\ fEvals' = fEvals + r.fcalls
              /\ IF r.outcome.kind = "raise"
                 THEN /\ pc' = "done"
                      /\ outcome' = ExceptNotImplemented(r.outcome)
                      /\ UNCHANGED <<err, regions, subdivisions, success,
                                     items, yielded>>
                 ELSE /\ pc' = "test"
                      /\ outcome' = outcome
                      /\ err' = r.outcome.value
                      /\ regions' = <<CubatureRegion(est, r.outcome.value,
                                                     a.v, b.v, TRUE)>>
                      /\ subdivisions' = 0
                      /\ success' = TRUE
    /\ UNCHANGED <<op, args, rule, a, b, rtol, atol, max_subdivisions, est,
                   region_k, pending, result, items, yielded>>

NotWithinTolerance_all(e, er, at, rt) ==
    \A i \in Comps : er[i] > at + rt * Abs(e[i])

NotWithinTolerance_ge(e, er, at, rt) ==
    \E i \in Comps : er[i] >= at + rt * Abs(e[i])

\* np.any(err > atol + rtol * np.abs(est))
NotWithinTolerance(e, er, at, rt) ==
    \E i \in Comps : er[i] > at + rt * Abs(e[i])

\* the while condition
Test ==
    /\ pc = "test"
    /\ pc' = IF NotWithinTolerance(est, err, atol, rtol) THEN "pop"
             ELSE "return"
    /\ UNCHANGED <<op, args, rule, a, b, outcome, fEvals>>
    /\ UNCHANGED <<driverVars, items, yielded>>

Isub_skip(x, y) == x

\* x -= y on arrays
Isub(x, y) == VSub(x, y)

\* x += y on arrays
Iadd(x, y) == VAdd(x, y)

\* an unbounded run is followed while it stays within the bounds of the model
Followed ==
    \/ max_subdivisions # Inf
    \/ /\ subdivisions < MaxSubdivisions
       /\ Len(regions) + 2 ^ Len(a.v) - 1 <= MaxRegions

\* region_k = heapq.heappop(regions); est -= est_k; err -= err_k; and the
\* call of _subregion_coordinates(a_k, b_k)
Pop ==
    /\ pc = "pop"
    /\ Followed
    /\ \E popped \in {Heappop(regions)} :
       \E e \in {Isub(est, popped.item.estimate)},
          er \in {Isub(err, popped.item.error)} :
           /\ est' = e
           /\ err' = er
           /\ region_k' = Sync(popped.item, e, er)
           /\ regions' = SyncAll(popped.heap, e, er)
           /\ pending' = SubregionCoordinates(popped.item.a, popped.item.b)
    /\ pc' = "child"
    /\ UNCHANGED <<op, args, rule, a, b, rtol, atol, max_subdivisions,
                   subdivisions, success, outcome, result, fEvals,
                   items, yielded>>

\* one pass of the for loop over the subregions
Child ==
    /\ pc = "child"
    /\ pending # <<>>
    /\ \E v \in RuleValues, a_k_sub \in {Head(pending)[1]},
          b_k_sub \in {Head(pending)[2]} :
       \E est_sub \in {Estimate(rule, v.est, a_k_sub, b_k_sub)},
          err_sub \in {ErrorEstimate(rule, v.diff, a_k_sub, b_k_sub)} :
          LET failed == IF est_sub.outcome.kind = "raise" THEN est_sub
                        ELSE err_sub
          IN  IF failed.outcome.kind = "raise"
              THEN /\ pc' = "done"
                   /\ outcome' = failed.outcome
                   /\ fEvals' = fEvals + est_sub.fcalls
                   /\ UNCHANGED <<est, err, regions, region_k, pending,
                                  items, yielded>>
              ELSE \E e \in {Iadd(est, est_sub.outcome.value)},
                      er \in {Iadd(err, err_sub.outcome.value)},
                      new_region \in
                          {CubatureRegion(est_sub.outcome.value,
                                          err_sub.outcome.value,
                                          a_k_sub, b_k_sub, FALSE)} :
                       /\ est' = e
                       /\ err' = er
                       /\ region_k' = Sync(region_k, e, er)
                       /\ regions' = Heappush(SyncAll(regions, e, er),
                                              new_region)
                       /\ pending' = Tail(pending)
                       /\ pc' = IF Tail(pending) = <<>> THEN "count"
                                ELSE "child"
                       /\ outcome' = outcome
                       /\ fEvals' = fEvals + est_sub.fcalls + err_sub.fcalls
    /\ UNCHANGED <<op, args, rule, a, b, rtol, atol, max_subdivisions,
                   subdivisions, success, result, items, yielded>>

BudgetReached_strict(n, limit) == n > limit

\* subdivisions >= max_subdivisions
BudgetReached(n, limit) == n >= limit

\* subdivisions += 1 and the check of the budget
Count ==
    /\ pc = "count"
    /\ subdivisions' = subdivisions + 1
    /\ IF BudgetReached(subdivisions + 1, max_subdivisions)
       THEN success' = FALSE /\ pc' = "return"
       ELSE success' = success /\ pc' = "test"
    /\ UNCHANGED <<op, args, rule, a, b, rtol, atol, max_subdivisions, est,
                   err, regions, region_k, pending, outcome, result, fEvals,
                   items, yielded>>

CubatureResult(estimate, error, succ, status, regs, subdivs, at, rt) ==
    [estimate |-> estimate, error |-> error, success |-> succ,
     status |-> status, regions |-> regs, subdivisions |-> subdivs,
     atol |-> at, rtol |-> rt]

\* status = ...; return CubatureResult(...)
ReturnResult ==
    /\ pc = "return"
    /\ result' = <<CubatureResult(est, err, success,
                                  IF success THEN "converged"
                                  ELSE "not_converged",
                                  regions, subdivisions, atol, rtol)>>
    /\ outcome' = Return(est)
    /\ pc' = "done"
    /\ UNCHANGED <<op, args, rule, a, b, rtol, atol, max_subdivisions, est,
                   err, regions, region_k, pending, subdivisions, success,
                   fEvals, items, yielded>>

Next ==
    \/ ConstructNewtonCotes
    \/ ConstructGaussLegendre
    \/ ConstructGaussKronrod
    \/ ConstructGenzMalik
    \/ CallEstimate
    \/ CallErrorEstimate
    \/ CallCubature
    \/ InitialEstimate
    \/ InitialError
    \/ Test
    \/ Pop
    \/ Child
    \/ Count
    \/ ReturnResult

Spec == Init /\ [][Next]_vars

\* the interpreter runs the program to its end: no step waits for anything
FairSpec == Spec /\ WF_vars(Next)

---------------------------------------------------------------------------
(* Vocabulary of the properties *)

InCubature == op = "cubature"

\* cubature() has returned a CubatureResult
Returned == InCubature /\ outcome.kind = "return"

\* cubature() is between two iterations of its loop, or past the loop
BetweenSteps == InCubature /\ pc \in {"test", "pop", "return"}

\* cubature() has built its first region: it is in the loop or past it
InLoop ==
    InCubature /\ (pc \in {"test", "pop", "child", "count", "return"}
                   \/ outcome.kind = "return")

Dim == Len(a.v)

RECURSIVE SumEstimates(_)
SumEstimates(heap) ==
    IF heap = <<>> THEN Zero
    ELSE VAdd(Head(heap).estimate, SumEstimates(Tail(heap)))

RECURSIVE SumErrors(_)
SumErrors(heap) ==
    IF heap = <<>> THEN Zero
    ELSE VAdd(Head(heap).error, SumErrors(Tail(heap)))

WithinTolerance(e, er, at, rt) ==
    \A i \in Comps : er[i] <= at + rt * Abs(e[i])

RECURSIVE Volume(_, _)
Volume(ra, rb) ==
    IF ra = <<>> THEN 1
    ELSE (Head(rb) - Head(ra)) * Volume(Tail(ra), Tail(rb))

RECURSIVE SumVolumes(_)
SumVolumes(boxes) ==
    IF boxes = <<>> THEN 0
    ELSE Volume(Head(boxes).a, Head(boxes).b) + SumVolumes(Tail(boxes))

Box(ra, rb) == [a |-> ra, b |-> rb]

BoxesOf(heap) == [i \in 1..Len(heap) |-> Box(heap[i].a, heap[i].b)]

PendingBoxes == [i \in 1..Len(pending) |-> Box(pending[i][1], pending[i][2])]

\* the boxes lie in [a, b], are themselves ordered, share no interior point
\* and fill the volume of [a, b]
Partitions(boxes) ==
    /\ \A i \in 1..Len(boxes) : \A x \in 1..Dim :
          /\ a.v[x] <= boxes[i].a[x]
          /\ boxes[i].a[x] <= boxes[i].b[x]
          /\ boxes[i].b[x] <= b.v[x]
    /\ \A i, j \in 1..Len(boxes) :
          i < j => \E x \in 1..Dim : \/ boxes[i].b[x] <= boxes[j].a[x]
                                     \/ boxes[j].b[x] <= boxes[i].a[x]
    /\ SumVolumes(boxes) = Volume(a.v, b.v)

\* the exact midpoint of axis x of region r
Mid(r, x) == CHOOSE m \in -Unit..Unit : 2 * m = r.a[x] + r.b[x]

\* the half of region r that takes the lower (0) or upper (1) half per axis
HalfBox(r, choice) ==
    Box([x \in 1..Len(r.a) |-> IF choice[x] = 0 THEN r.a[x] ELSE Mid(r, x)],
        [x \in 1..Len(r.a) |-> IF choice[x] = 0 THEN Mid(r, x) ELSE r.b[x]])

---------------------------------------------------------------------------
(* C1 *)

\* C1: whenever the convergence test is evaluated, and at return, est and
\* err are the sums of the estimates and errors of the regions in the
\* working set, no subregion of the last step is still pending and the set
\* holds 1 + subdivisions * (2^d - 1) regions; inside a step the accumulator
\* is the sum over the regions then in the set (the parent taken out once,
\* the children visited so far put in).
C1_AccumulatorInvariant ==
    /\ BetweenSteps =>
          /\ est = SumEstimates(regions)
          /\ err = SumErrors(regions)
          /\ pending = <<>>
          /\ Len(regions) = 1 + subdivisions * (2 ^ Dim - 1)
    /\ InCubature /\ pc \in {"child", "count"} =>
          /\ est = SumEstimates(regions)
          /\ err = SumErrors(regions)
          /\ Len(regions) =
                subdivisions * (2 ^ Dim - 1) + 2 ^ Dim - Len(pending)
    /\ Returned =>
          /\ result[1].estimate = SumEstimates(result[1].regions)
          /\ result[1].error = SumErrors(result[1].regions)

C1_Witness ==
    /\ Returned
    /\ result[1].subdivisions >= 2
    /\ result[1].estimate = SumEstimates(result[1].regions)
    /\ result[1].estimate # Zero
    /\ result[1].error # Zero

---------------------------------------------------------------------------
(* C2 *)

C2_Partitioned ==
    InLoop /\ (\A x \in 1..Dim : a.v[x] <= b.v[x]) =>
        /\ BetweenSteps \/ Returned \/ pc = "count" =>
              Partitions(BoxesOf(regions))
        /\ pc = "child" => Partitions(BoxesOf(regions) \o PendingBoxes)

C2_Children ==
    InCubature /\ pc = "count" =>
        /\ \A choice \in [1..Dim -> {0, 1}] :
              \E i \in 1..Len(regions) :
                 Box(regions[i].a, regions[i].b) = HalfBox(region_k, choice)
        /\ Len(regions) = 1 + (subdivisions + 1) * (2 ^ Dim - 1)

C2_OnlyPopRemoves ==
    InCubature =>
        \A i \in 1..Len(regions) :
           \/ \E j \in 1..Len(regions') : regions'[j] = regions[i]
           \/ /\ pc = "pop"
              /\ Len(regions') = Len(regions) - 1
              /\ Box(region_k'.a, region_k'.b)
                   = Box(regions[i].a, regions[i].b)

\* C2: started on a region with a <= b on every axis, the regions of the
\* working set partition [a, b] between steps and at return (inside a step,
\* together with the subregions still to visit); a step leaves in the set
\* the 2^d halves of the popped region, one per choice of lower or upper
\* half on every axis; a region leaves the set only by being popped.
C2_PartitionInvariant ==
    /\ [](C2_Partitioned /\ C2_Children)
    /\ [][C2_OnlyPopRemoves]_vars

C2_Witness ==
    /\ Returned
    /\ Dim = 2
    /\ \A x \in 1..Dim : a.v[x] < b.v[x]
    /\ result[1].subdivisions = 2
    /\ Len(result[1].regions) = 7
    /\ Partitions(BoxesOf(result[1].regions))

---------------------------------------------------------------------------
(* C3 *)

\* C3: the region just popped has a max-abs error at least that of every
\* region left in the working set.
C3_WorstFirst ==
    InCubature /\ pc = "child" /\ Len(pending) = 2 ^ Dim =>
        \A i \in 1..Len(regions) :
           MaxNorm(region_k.error) >= MaxNorm(regions[i].error)

C3_Witness ==
    /\ InCubature /\ pc = "child" /\ Len(pending) = 2 ^ Dim
    /\ Len(regions) >= 3
    /\ \E i, j \in 1..Len(regions) :
          /\ MaxNorm(regions[i].error) < MaxNorm(region_k.error)
          /\ MaxNorm(regions[j].error) < MaxNorm(regions[i].error)

---------------------------------------------------------------------------
(* C4 *)

\* C4: a result with status "converged" has success = TRUE and its error is
\* within atol + rtol * |estimate| in every component; the loop is left as
\* converged only then, and goes on to pop a region only when some
\* component is outside the tolerance.
C4_ConvergedWithinTolerance ==
    /\ Returned /\ result[1].status = "converged" =>
          /\ result[1].success
          /\ WithinTolerance(result[1].estimate, result[1].error,
                             result[1].atol, result[1].rtol)
    /\ InCubature /\ pc = "return" /\ success =>
          WithinTolerance(est, err, atol, rtol)
    /\ InCubature /\ pc = "pop" => ~WithinTolerance(est, err, atol, rtol)

C4_Witness ==
    /\ Returned
    /\ result[1].status = "converged"
    /\ result[1].subdivisions >= 1
    /\ \E i \in Comps : result[1].error[i] > 0
    /\ WithinTolerance(result[1].estimate, result[1].error,
                       result[1].atol, result[1].rtol)

---------------------------------------------------------------------------
(* C5 *)

\* C5: a result with status "not_converged" has success = FALSE, carries
\* the accumulated estimate and error, and counts exactly max_subdivisions
\* subdivisions, whatever max_subdivisions the driver was given.
C5_CountEqualsBudget ==
    Returned /\ result[1].status = "not_converged" =>
        /\ ~result[1].success
        /\ result[1].estimate = est
        /\ result[1].error = err
        /\ result[1].subdivisions = max_subdivisions

---------------------------------------------------------------------------
(* C6 *)

FiniteBudget == max_subdivisions \in 1..MaxSubdivisions

C6_AtMostBudget == InLoop /\ FiniteBudget => subdivisions <= max_subdivisions

C6_Unbounded ==
    InLoop /\ max_subdivisions = Inf =>
        /\ success
        /\ pc = "return" \/ Returned => WithinTolerance(est, err, atol, rtol)
        /\ Returned => result[1].status = "converged"

\* C6: with a finite max_subdivisions >= 1 the counter never exceeds
\* max_subdivisions and cubature() comes to an end, whatever the rule
\* returns; with max_subdivisions = None the run is never not_converged and
\* leaves the loop only within tolerance.
C6_Termination ==
    /\ [](C6_AtMostBudget /\ C6_Unbounded)
    /\ (InCubature /\ FiniteBudget) ~> (pc = "done")

C6_Witness ==
    /\ Returned
    /\ max_subdivisions >= 2
    /\ max_subdivisions # Inf
    /\ result[1].status = "not_converged"
    /\ result[1].subdivisions = max_subdivisions

---------------------------------------------------------------------------
(* C7 *)

\* the first evaluation of the test: est and err are what the rule returned
\* for [a, b]
FirstTest == InCubature /\ pc = "test" /\ subdivisions = 0

C7_FirstRegion ==
    FirstTest =>
        /\ regions = <<CubatureRegion(est, err, a.v, b.v, TRUE)>>
        /\ \E v \in RuleValues : est = v.est
        /\ \E v \in RuleValues : err = [i \in Comps |-> Abs(v.diff[i])]

C7_LeavesLoop ==
    FirstTest /\ WithinTolerance(est, err, atol, rtol) =>
        /\ pc' = "return"
        /\ UNCHANGED <<est, err, regions, subdivisions, success,
                       items, yielded>>

C7_Returns ==
    InCubature /\ pc = "return" /\ subdivisions = 0 /\ success =>
        result' = <<CubatureResult(
                      est, err, TRUE, "converged",
                      <<CubatureRegion(est, err, a.v, b.v, TRUE)>>,
                      0, atol, rtol)>>

\* C7: when the estimate and error of the rule over [a, b] are within the
\* tolerance, cubature() leaves the loop at once and returns "converged"
\* with subdivisions = 0, the single initial region as working set and the
\* estimate and error of the rule.
C7_ZeroSubdivisions ==
    /\ []C7_FirstRegion
    /\ [][C7_LeavesLoop /\ C7_Returns]_vars

C7_Witness ==
    /\ Returned
    /\ result[1].subdivisions = 0
    /\ result[1].status = "converged"
    /\ result[1].error # Zero
    /\ result[1].regions =
          <<CubatureRegion(result[1].estimate, result[1].error, a.v, b.v,
                           TRUE)>>

---------------------------------------------------------------------------
(* C8 *)

---------------------------------------------------------------------------
(* C9 *)

Rejects(cls, exc) ==
    /\ op = cls
    /\ pc = "done"
    /\ outcome.kind = "raise"
    /\ outcome.exc = exc
    /\ rule = NoRule

\* C9: a constructor called with invalid parameters raises and leaves no
\* rule object; a rule object that exists has the parameters it was given;
\* cubature() with a or b not of rank 1 raises ValueError before the rule or
\* the integrand is used.
C9_EagerValidation ==
    /\ op \in {"NewtonCotes", "GaussLegendre"} /\ args.npoints < 2 =>
          Rejects(op, "ValueError")
    /\ op = "GaussKronrod" /\ args.npoints \notin {15, 21} =>
          Rejects(op, "ValueError")
    /\ op = "GenzMalik" /\ args.ndim < 2 => Rejects(op, "ValueError")
    /\ op = "GenzMalik" /\ args.ndim >= 2
          /\ <<args.degree, args.lower_degree>> # <<7, 5>> =>
          Rejects(op, "NotImplementedError")
    /\ rule # NoRule =>
          /\ rule.npoints = args.npoints
          /\ rule.open = args.open
          /\ rule.ndim = args.ndim
          /\ rule.degree = args.degree
          /\ rule.lower_degree = args.lower_degree
    /\ InCubature /\ (a.ndim # 1 \/ b.ndim # 1) =>
          /\ pc = "done"
          /\ outcome = Raise("ValueError", "rank")
          /\ fEvals = 0
          /\ regions = <<>>
          /\ result = <<>>

C9_Witness ==
    /\ Rejects("GenzMalik", "NotImplementedError")
    /\ args.ndim >= 2
    /\ args.degree = 7
    /\ args.lower_degree # 5

---------------------------------------------------------------------------
(* C10 *)

Mismatched == RuleNdim(rule) # Len(a.v) \/ RuleNdim(rule) # Len(b.v)

NoWeights == rule.cls = "NewtonCotes" /\ rule.open /\ rule.npoints = 2

\* the error a mismatched call ends with
MismatchError ==
    IF NoWeights THEN Raise("LinAlgError", "singular")
    ELSE Raise("ValueError", "dimension")

---------------------------------------------------------------------------
(* The rules as pairs (nodes, weights), and _apply_rule on them *)

\* a rule pair: nodes is an array of shape (ndim, npoints), kept as the
\* sequence of its rows; weights has one entry per column of nodes
RulePair(nodes, weights) == [nodes |-> nodes, weights |-> weights]

\* the sum of a sequence of integers, by halves
RECURSIVE SeqSum(_)
SeqSum(s) ==
    IF s = <<>> THEN 0
    ELSE IF Len(s) = 1 THEN s[1]
         ELSE LET h == Len(s) \div 2
              IN  SeqSum(SubSeq(s, 1, h)) + SeqSum(SubSeq(s, h + 1, Len(s)))

RECURSIVE SeqProd(_)
SeqProd(s) == IF s = <<>> THEN 1 ELSE Head(s) * SeqProd(Tail(s))

\* number of columns of an array kept as rows
NCols(nodes) == IF nodes = <<>> THEN 0 ELSE Len(nodes[1])

\* column j of an array kept as rows: one evaluation point
Column(nodes, j) == [i \in 1..Len(nodes) |-> nodes[i][j]]

\* nodes = (orig_nodes + 1) * (lengths / 2) + a, on bounds whose lengths are
\* even, so that lengths / 2 is whole
MapNodes(orig_nodes, av, bv) ==
    [i \in 1..Len(orig_nodes) |->
        [j \in 1..Len(orig_nodes[i]) |->
            (orig_nodes[i][j] + 1) * ((bv[i] - av[i]) \div 2) + av[i]]]

\* weights = orig_weights * math.prod(lengths / 2)
ScaleWeights(orig_weights, av, bv) ==
    [j \in 1..Len(orig_weights) |->
        orig_weights[j]
          * SeqProd([i \in 1..Len(av) |-> (bv[i] - av[i]) \div 2])]

\* the integrand: f(x) for one evaluation point x, one value per output
\* component; k holds the coefficients that tell the integrands apart
F(k, x) ==
    [c \in Comps |-> IF c = 1 THEN k[1] + k[2] * x[1]
                     ELSE k[3] * x[1] * x[1] + k[2] * x[Len(x)]]

\* np.sum(weights * f(nodes), axis=-1)
WeightedSum(k, nodes, weights) ==
    [c \in Comps |->
        SeqSum([j \in 1..Len(weights) |-> weights[j] * F(k, Column(nodes, j))[c]])]

\* _apply_rule(f, a, b, rule) on a rule pair: the dimension check, then one
\* call of f on all the mapped nodes
ApplyRulePair(k, av, bv, pair) ==
    IF Len(pair.nodes) = Len(av) /\ Len(pair.nodes) = Len(bv)
    THEN ApplyRule(WeightedSum(k, MapNodes(pair.nodes, av, bv),
                               ScaleWeights(pair.weights, av, bv)),
                   av, bv, Len(pair.nodes))
    ELSE ApplyRule(Zero, av, bv, Len(pair.nodes))

\* the columns f is handed by a call of _apply_rule that gets to call it
PointsEvaluated(av, bv, pair) ==
    IF Len(pair.nodes) = Len(av) /\ Len(pair.nodes) = Len(bv)
    THEN NCols(pair.nodes) ELSE 0

---------------------------------------------------------------------------
(* ErrorFromDifference *)

\* ErrorFromDifference(higher, lower): rule is higher.rule, lower_rule is
\* lower.rule
ErrorFromDifferenceInit(higher, lower) == [higher |-> higher, lower |-> lower]

\* np.concat([x, y], axis=-1) on arrays kept as rows
ConcatRows(x, y) == [i \in 1..Len(x) |-> x[i] \o y[i]]

Negated(w) == [j \in 1..Len(w) |-> -w[j]]

ErrorRule_plus(efd) ==
    RulePair(ConcatRows(efd.higher.nodes, efd.lower.nodes),
             efd.higher.weights \o efd.lower.weights)

\* error_rule = (concat of the nodes, concat of weights and -lower_weights)
ErrorRule(efd) ==
    RulePair(ConcatRows(efd.higher.nodes, efd.lower.nodes),
             efd.higher.weights \o Negated(efd.lower.weights))

VAbs(x) == [c \in Comps |-> Abs(x[c])]

\* ErrorFromDifference.estimate (inherited): _apply_rule on self.rule
EfdEstimate(efd, k, av, bv) == ApplyRulePair(k, av, bv, efd.higher)

\* ErrorFromDifference.error_estimate: np.abs(_apply_rule on error_rule)
EfdErrorEstimate(efd, k, av, bv) ==
    LET applied == ApplyRulePair(k, av, bv, ErrorRule(efd))
    IN  IF applied.outcome.kind = "raise" THEN applied
        ELSE Evaluated(Return(VAbs(applied.outcome.value)), applied.fcalls)

---------------------------------------------------------------------------
(* _distinct_permutations *)

\* insert x into the sorted sequence s, after the elements equal to it
RECURSIVE Insert(_, _)
Insert(x, s) ==
    IF s = <<>> THEN <<x>>
    ELSE IF x < Head(s) THEN <<x>> \o s
         ELSE <<Head(s)>> \o Insert(x, Tail(s))

Sorted_asGiven(s) == s

\* sorted(iterable)
RECURSIVE Sorted(_)
Sorted(s) == IF s = <<>> THEN <<>> ELSE Insert(Head(s), Sorted(Tail(s)))

Reversed(s) == [p \in 1..Len(s) |-> s[Len(s) + 1 - p]]

\* the positions i (Python's i + 1) with items[i] < items[i + 1], for the
\* list arr
Ascents(arr) == {p \in 1..(Len(arr) - 1) : arr[p] < arr[p + 1]}

\* has the walk reached its last permutation (the for ... else: return)
Exhausted(arr) == Ascents(arr) = {}

\* one pass of the while loop after the yield: the next permutation
NextPermutation(arr) ==
    LET size == Len(arr)
        i == SetMax(Ascents(arr))
        j == SetMax({q \in (i + 1)..size : arr[i] < arr[q]})
        swapped == [arr EXCEPT ![i] = arr[j], ![j] = arr[i]]
    IN  SubSeq(swapped, 1, i) \o Reversed(SubSeq(swapped, i + 1, size))

\* the tuples _distinct_permutations(iterable) yields from the list arr on
RECURSIVE Walk(_)
Walk(arr) ==
    IF Exhausted(arr) THEN <<arr>>
    ELSE <<arr>> \o Walk(NextPermutation(arr))

\* list(_distinct_permutations(iterable))
DistinctPermutations(iterable) == Walk(Sorted(iterable))

---------------------------------------------------------------------------
(* GenzMalik.rule and GenzMalik.lower_rule *)

\* l_2 = sqrt(9/70), l_3 = l_4 = sqrt(9/10), l_5 = sqrt(9/19), in
\* thousandths (rounded down): the rule only orders and compares them
Lambda2 == 358

Lambda3 == 948

Lambda4 == 948

Lambda5 == 688

Zeros(n) == [i \in 1..n |-> 0]

Flatten(seqs) ==
    LET RECURSIVE Cat(_)
        Cat(ss) == IF ss = <<>> THEN <<>> ELSE Head(ss) \o Cat(Tail(ss))
    IN  Cat(seqs)

\* the families of nodes without those of l_5, chained: one tuple per node
GenzMalikLowerTuples(ndim) ==
    Flatten(<< <<Zeros(ndim)>>,
               DistinctPermutations(<<Lambda2>> \o Zeros(ndim - 1)),
               DistinctPermutations(<<-Lambda2>> \o Zeros(ndim - 1)),
               DistinctPermutations(<<Lambda3>> \o Zeros(ndim - 1)),
               DistinctPermutations(<<-Lambda3>> \o Zeros(ndim - 1)),
               DistinctPermutations(<<Lambda4, Lambda4>> \o Zeros(ndim - 2)),
               DistinctPermutations(<<Lambda4, -Lambda4>> \o Zeros(ndim - 2)),
               DistinctPermutations(<<-Lambda4, -Lambda4>> \o Zeros(ndim - 2))
            >>)

GenzMalikTuples_noCorners(ndim) == GenzMalikLowerTuples(ndim)

\* its of GenzMalik.rule: the families above, then
\* itertools.product((l_5, -l_5), repeat=ndim)
GenzMalikTuples(ndim) ==
    GenzMalikLowerTuples(ndim)
      \o Product([i \in 1..ndim |-> <<Lambda5, -Lambda5>>])

\* np.fromiter(chain.from_iterable(zip(*its)), count=ndim * nodes_size) with
\* nodes.shape = (ndim, nodes_size): ValueError when the iterator is short
FromTuples(tuples, ndim, nodes_size) ==
    LET flat == Flatten([i \in 1..ndim |->
                           [t \in 1..Len(tuples) |-> tuples[t][i]]])
    IN  IF Len(flat) < ndim * nodes_size
        THEN Raise("ValueError", "fromiter")
        ELSE [kind |-> "return", exc |-> "", msg |-> "",
              value |-> [i \in 1..ndim |->
                           SubSeq(flat, (i - 1) * nodes_size + 1,
                                  i * nodes_size)]]

\* np.repeat(values, counts)
RECURSIVE Repeat(_, _)
Repeat(values, counts) ==
    IF values = <<>> THEN <<>>
    ELSE [j \in 1..Head(counts) |-> Head(values)]
           \o Repeat(Tail(values), Tail(counts))

\* w_1 .. w_5 of GenzMalik.rule
GenzMalikFamilyWeights(ndim) ==
    LET p == 2 ^ ndim
    IN  << Rat(p * (12824 - 9120 * ndim + 400 * ndim ^ 2), 19683),
           Rat(p * 980, 6561),
           Rat(p * (1820 - 400 * ndim), 19683),
           Rat(p * 200, 19683),
           Rat(6859, 19683) >>

\* the weights of GenzMalik.rule
GenzMalikWeights(ndim) ==
    Repeat(GenzMalikFamilyWeights(ndim),
           <<1, 2 * ndim, 2 * ndim, 2 * (ndim - 1) * ndim, 2 ^ ndim>>)

\* w_1 .. w_4 of GenzMalik.lower_rule
GenzMalikLowerFamilyWeights(ndim) ==
    LET p == 2 ^ ndim
    IN  << Rat(p * (729 - 950 * ndim + 50 * ndim ^ 2), 729),
           Rat(p * 245, 486),
           Rat(p * (265 - 100 * ndim), 1458),
           Rat(p * 25, 729) >>

\* the weights of GenzMalik.lower_rule
GenzMalikLowerWeights(ndim) ==
    Repeat(GenzMalikLowerFamilyWeights(ndim),
           <<1, 2 * ndim, 2 * ndim, 2 * (ndim - 1) * ndim>>)

\* GenzMalik.rule: the outcome of building the pair (nodes, weights)
GenzMalikRule(ndim) ==
    LET nodes_size == 1 + 2 * (ndim + 1) * ndim + 2 ^ ndim
        nodes == FromTuples(GenzMalikTuples(ndim), ndim, nodes_size)
    IN  IF nodes.kind = "raise" THEN nodes
        ELSE [nodes EXCEPT !.value = RulePair(nodes.value,
                                              GenzMalikWeights(ndim))]

\* GenzMalik.lower_rule
GenzMalikLowerRule(ndim) ==
    LET nodes_size == 1 + 2 * (ndim + 1) * ndim
        nodes == FromTuples(GenzMalikLowerTuples(ndim), ndim, nodes_size)
    IN  IF nodes.kind = "raise" THEN nodes
        ELSE [nodes EXCEPT !.value = RulePair(nodes.value,
                                              GenzMalikLowerWeights(ndim))]

---------------------------------------------------------------------------
(* GaussKronrod.rule: the hard-coded weights *)

\* the unit the weights below are counted in
KronrodUnit == 10 ^ 9

\* the weights of GaussKronrod.rule, rounded to 9 decimals
GaussKronrodWeights(npoints) ==
    IF npoints = 21
    THEN << 11694639, 32558162, 54755897, 75039675, 93125455, 109387159,
            123491976, 134709217, 142775939, 147739105, 149445554,
            147739105, 142775939, 134709217, 123491976, 109387159,
            93125455, 75039675, 54755897, 32558162, 11694639 >>
    ELSE << 22935322, 63092093, 104790010, 140653260, 169004727,
            190350578, 204432940, 209482141, 204432940, 190350578,
            169004727, 140653260, 104790010, 63092093, 22935322 >>

---------------------------------------------------------------------------
(* The estimate of the constant function 1 *)

\* _apply_rule(f, a, b, rule) for f = 1 (an array of ones, one per column of
\* nodes) on a rule whose weights are rationals; rule_outcome is what
\* evaluating self.rule came to
EstimateOfOne(rule_outcome, av, bv) ==
    IF rule_outcome.kind = "raise" THEN Evaluated(rule_outcome, 0)
    ELSE LET pair == rule_outcome.value
             scale == RatProd([i \in 1..Len(av) |-> Rat(bv[i] - av[i], 2)])
         IN  IF Len(pair.nodes) # Len(av) \/ Len(pair.nodes) # Len(bv)
             THEN ApplyRule(RatInt(0), av, bv, Len(pair.nodes))
             ELSE IF Len(pair.weights) # NCols(pair.nodes)
                  THEN Evaluated(Raise("ValueError", "broadcast"), 1)
                  ELSE ApplyRule(
                          RatSum([j \in 1..Len(pair.weights) |->
                                    RatMul(pair.weights[j], scale)]),
                          av, bv, Len(pair.nodes))

\* NewtonCotes.rule: the outcome of building the pair (nodes, weights)
NewtonCotesRule(npoints, open) ==
    LET nodes == NewtonCotesNodes(npoints, open)
        weights == NewtonCotesWeights(nodes)
    IN  IF weights.kind = "raise" THEN weights
        ELSE [weights EXCEPT !.value = RulePair(<<nodes>>, weights.value)]

---------------------------------------------------------------------------
(* Product.rule, Product.lower_rule and _cartesian_product *)

\* what np.meshgrid makes of an argument before it builds the grid: the
\* array read in row-major order (a one-dimensional array is itself)
Ravel(array) == Flatten(array)

CartesianProduct_reversed(flats) ==
    LET tuples == Product(Reversed(flats))
    IN  [k \in 1..Len(flats) |->
            [t \in 1..Len(tuples) |-> tuples[t][Len(flats) + 1 - k]]]

\* _cartesian_product(points) on arguments already read in row-major order:
\* np.stack(np.meshgrid(*points, indexing='ij'), axis=0)
\*   .reshape(len(points), -1)
\* has one row per argument and one column per combination of one entry of
\* each argument, the last argument varying fastest
CartesianProduct(flats) ==
    LET tuples == Product(flats)
    IN  [k \in 1..Len(flats) |-> [t \in 1..Len(tuples) |-> tuples[t][k]]]

\* np.prod(array, axis=0) on an array kept as rows
ProdAxis0(array) ==
    [j \in 1..NCols(array) |->
        SeqProd([k \in 1..Len(array) |-> array[k][j]])]

\* Product(base_cubatures)
ProductInit(base_cubatures) == [base_cubatures |-> base_cubatures]

\* the pair Product.rule and Product.lower_rule build from one pair of each
\* base cubature; the nodes of a base cubature are a two-dimensional array,
\* its weights a one-dimensional one
ProductOfPairs(pairs) ==
    RulePair(CartesianProduct([k \in 1..Len(pairs) |-> Ravel(pairs[k].nodes)]),
             ProdAxis0(CartesianProduct([k \in 1..Len(pairs) |->
                                            pairs[k].weights])))

\* Product.rule (the list to_product it builds first is not used)
ProductRule(self) ==
    ProductOfPairs([k \in 1..Len(self.base_cubatures) |->
                       self.base_cubatures[k].rule])

\* Product.lower_rule
ProductLowerRule(self) ==
    ProductOfPairs([k \in 1..Len(self.base_cubatures) |->
                       self.base_cubatures[k].lower_rule])

---------------------------------------------------------------------------
(* Calls of the methods of ErrorFromDifference on concrete rules *)

\* rule pairs handed to ErrorFromDifference: on one axis a three-point, a
\* two-point and a one-point rule, on two axes a corner and a centre rule
SampleRules ==
    { RulePair(<< <<-1, 0, 1>> >>, <<1, 4, 1>>),
      RulePair(<< <<-1, 1>> >>, <<1, 1>>),
      RulePair(<< <<0>> >>, <<2>>),
      RulePair(<< <<-1, -1, 1, 1>>, <<-1, 1, -1, 1>> >>, <<1, 1, 1, 1>>),
      RulePair(<< <<0>>, <<0>> >>, <<4>>) }

\* coefficients of the integrands tried
Integrands == { <<1, 0, 0>>, <<0, 1, 1>>, <<2, -1, 1>>, <<-1, 2, -3>> }

\* bounds with even lengths, on one and two axes
EvenLower == { <<0>>, <<-2>>, <<0, 0>> }

EvenUpper == { <<2>>, <<4>>, <<-2>>, <<2, 4>> }

\* rule = ErrorFromDifference(higher, lower); rule.estimate(f, a, b);
\* rule.error_estimate(f, a, b)
CallErrorFromDifference ==
    /\ pc = "start"
    /\ \E higher \in SampleRules, lower \in SampleRules, k \in Integrands,
          av \in EvenLower, bv \in EvenUpper :
          /\ Len(higher.nodes) = Len(lower.nodes)
          /\ \E efd \in {ErrorFromDifferenceInit(higher, lower)} :
             \E e \in {EfdEstimate(efd, k, av, bv)},
                er \in {EfdErrorEstimate(efd, k, av, bv)} :
                /\ args' = [higher |-> higher, lower |-> lower, f |-> k,
                            a |-> av, b |-> bv]
                /\ result' = <<[estimate |-> e.outcome,
                                estimate_fcalls |-> e.fcalls,
                                error |-> er.outcome,
                                error_fcalls |-> er.fcalls,
                                error_points |->
                                    PointsEvaluated(av, bv, ErrorRule(efd))]>>
    /\ op' = "ErrorFromDifference"
    /\ pc' = "done"
    /\ UNCHANGED <<rule, a, b, rtol, atol, max_subdivisions, est, err,
                   regions, region_k, pending, subdivisions, success,
                   outcome, fEvals, items, yielded>>

\* largest npoints of the Newton-Cotes rules built
MaxNPoints == 3

\* largest ndim of the Genz-Malik rules built
MaxNdim == 3

\* regions [a, b] on d axes: the unit cube, a box with odd and even
\* lengths, a box with b below a
Boxes(d) ==
    { [a |-> Zeros(d), b |-> [i \in 1..d |-> 1]],
      [a |-> [i \in 1..d |-> -1], b |-> [i \in 1..d |-> i + 1]],
      [a |-> [i \in 1..d |-> 2], b |-> [i \in 1..d |-> 2 - i]] }

\* NewtonCotes(npoints, open).rule: the nodes it lays out, the pair it
\* returns or the exception it raises, and its estimate of 1 over [a, b]
CallNewtonCotesRule ==
    /\ pc = "start"
    /\ \E npoints \in 2..MaxNPoints, open \in BOOLEAN, box \in Boxes(1) :
       \E built \in {NewtonCotesRule(npoints, open)} :
          /\ args' = [npoints |-> npoints, open |-> open, ndim |-> 1,
                      a |-> box.a, b |-> box.b]
          /\ result' = <<[nodes |-> NewtonCotesNodes(npoints, open),
                          rule |-> built,
                          one |-> EstimateOfOne(built, box.a, box.b)]>>
    /\ op' = "NewtonCotes.rule"
    /\ pc' = "done"
    /\ UNCHANGED <<rule, a, b, rtol, atol, max_subdivisions, est, err,
                   regions, region_k, pending, subdivisions, success,
                   outcome, fEvals, items, yielded>>

\* GenzMalik(ndim).rule, .lower_rule and their estimates of 1 over [a, b]
CallGenzMalikRule ==
    /\ pc = "start"
    /\ \E ndim \in 2..MaxNdim :
       \E box \in Boxes(ndim), built \in {GenzMalikRule(ndim)},
          lower \in {GenzMalikLowerRule(ndim)} :
          /\ args' = [npoints |-> 0, open |-> FALSE, ndim |-> ndim,
                      a |-> box.a, b |-> box.b]
          /\ result' = <<[rule |-> built,
                          one |-> EstimateOfOne(built, box.a, box.b),
                          lower_rule |-> lower,
                          lower_one |-> EstimateOfOne(lower, box.a, box.b)]>>
    /\ op' = "GenzMalik.rule"
    /\ pc' = "done"
    /\ UNCHANGED <<rule, a, b, rtol, atol, max_subdivisions, est, err,
                   regions, region_k, pending, subdivisions, success,
                   outcome, fEvals, items, yielded>>

\* GaussKronrod(npoints).rule: its weights
CallGaussKronrodRule ==
    /\ pc = "start"
    /\ \E npoints \in {15, 21} :
          /\ args' = [npoints |-> npoints, open |-> FALSE, ndim |-> 1,
                      a |-> <<>>, b |-> <<>>]
          /\ result' = <<[weights |-> GaussKronrodWeights(npoints)]>>
    /\ op' = "GaussKronrod.rule"
    /\ pc' = "done"
    /\ UNCHANGED <<rule, a, b, rtol, atol, max_subdivisions, est, err,
                   regions, region_k, pending, subdivisions, success,
                   outcome, fEvals, items, yielded>>

\* largest number of base cubatures handed to Product
MaxFactors == 3

\* base cubatures with a rule and a lower rule: two on one axis, one on two
\* axes
BaseCubatures ==
    { [rule |-> RulePair(<< <<-1, 0, 1>> >>, <<1, 4, 1>>),
       lower_rule |-> RulePair(<< <<-1, 1>> >>, <<1, 1>>)],
      [rule |-> RulePair(<< <<0, 1>> >>, <<3, 1>>),
       lower_rule |-> RulePair(<< <<0>> >>, <<2>>)],
      [rule |-> RulePair(<< <<-1, -1, 1, 1>>, <<-1, 1, -1, 1>> >>,
                         <<1, 2, 3, 5>>),
       lower_rule |-> RulePair(<< <<0>>, <<0>> >>, <<4>>)] }

\* a Product as a base cubature of another Product
AsBase(self) ==
    [rule |-> ProductRule(self), lower_rule |-> ProductLowerRule(self)]

\* the lists of base cubatures tried: up to MaxFactors of BaseCubatures, and
\* a Product of two next to one of BaseCubatures
BaseLists ==
    UNION { [1..n -> BaseCubatures] : n \in 1..MaxFactors }
      \cup { <<AsBase(ProductInit(<<x, y>>)), z>> : x, y, z \in BaseCubatures }
      \cup { <<z, AsBase(ProductInit(<<x, y>>))>> : x, y, z \in BaseCubatures }

\* rule = Product(base_cubatures); rule.rule; rule.lower_rule
CallProductRule ==
    /\ pc = "start"
    /\ \E base \in BaseLists :
       \E self \in {ProductInit(base)} :
          /\ args' = [base_cubatures |-> base]
          /\ result' = <<[rule |-> ProductRule(self),
                          lower_rule |-> ProductLowerRule(self)]>>
    /\ op' = "Product.rule"
    /\ pc' = "done"
    /\ UNCHANGED <<rule, a, b, rtol, atol, max_subdivisions, est, err,
                   regions, region_k, pending, subdivisions, success,
                   outcome, fEvals, items, yielded>>

\* the catalog of rules exercised on its own: one call, from construction
\* to its result
CatalogNext ==
    \/ CallErrorFromDifference
    \/ CallNewtonCotesRule
    \/ CallGenzMalikRule
    \/ CallGaussKronrodRule
    \/ CallProductRule

CatalogSpec == Init /\ [][CatalogNext]_vars

---------------------------------------------------------------------------
(* C11 *)

EfdCalled == op = "ErrorFromDifference" /\ pc = "done"

\* C11: error_estimate of ErrorFromDifference(higher, lower) is, in every
\* output component, |H - L| with H and L the two rules applied on their
\* own (hence >= 0); it calls f once, on the m1 + m2 concatenated nodes;
\* estimate is H, whatever the lower rule is.  On bounds of another
\* dimension both methods raise the dimension error.
C11_ErrorFromDifference ==
    EfdCalled =>
        LET H == ApplyRulePair(args.f, args.a, args.b, args.higher)
            L == ApplyRulePair(args.f, args.a, args.b, args.lower)
            r == result[1]
        IN  /\ r.estimate = H.outcome
            /\ \A lower \in SampleRules :
                  EfdEstimate(ErrorFromDifferenceInit(args.higher, lower),
                              args.f, args.a, args.b) = H
            /\ IF H.outcome.kind = "raise"
               THEN r.error = H.outcome /\ r.error_fcalls = 0
               ELSE /\ r.error.kind = "return"
                    /\ \A c \in Comps :
                          /\ r.error.value[c]
                               = Abs(H.outcome.value[c] - L.outcome.value[c])
                          /\ r.error.value[c] >= 0
                    /\ r.error_fcalls = 1
                    /\ r.estimate_fcalls = 1
                    /\ r.error_points
                         = NCols(args.higher.nodes) + NCols(args.lower.nodes)

C11_Witness ==
    /\ EfdCalled
    /\ result[1].error.kind = "return"
    /\ Len(args.a) = 2
    /\ args.higher # args.lower
    /\ \E c \in Comps :
          /\ result[1].error.value[c] > 0
          /\ ApplyRulePair(args.f, args.a, args.b, args.higher).outcome.value[c]
               < ApplyRulePair(args.f, args.a, args.b, args.lower).outcome.value[c]

---------------------------------------------------------------------------
(* C12 *)

\* the weights of a built rule sum to 2^d and its estimate of 1 is the
\* volume of [a, b]
ExactForConstants(built, one, d) ==
    /\ built.kind = "return"
    /\ RatSum(built.value.weights) = RatInt(2 ^ d)
    /\ Len(built.value.weights) = NCols(built.value.nodes)
    /\ one.outcome = Return(RatInt(Volume(args.a, args.b)))

\* C12: the weights of every rule of the catalog sum to 2^d and the
\* estimate of the constant function 1 over [a, b] is the volume of
\* [a, b]: for NewtonCotes(npoints, open), for both rules of
\* GenzMalik(ndim), and (within the rounding of the 9 decimals kept) for
\* the weights of GaussKronrod.
C12_ExactForConstants ==
    /\ op = "NewtonCotes.rule" /\ pc = "done" =>
          ExactForConstants(result[1].rule, result[1].one, 1)
    /\ op = "GenzMalik.rule" /\ pc = "done" =>
          /\ ExactForConstants(result[1].rule, result[1].one, args.ndim)
          /\ ExactForConstants(result[1].lower_rule, result[1].lower_one,
                               args.ndim)
    /\ op = "GaussKronrod.rule" /\ pc = "done" =>
          /\ Len(result[1].weights) = args.npoints
          /\ Abs(SeqSum(result[1].weights) - 2 * KronrodUnit)
               <= args.npoints

---------------------------------------------------------------------------
(* C13 *)

ProductCalled == op = "Product.rule" /\ pc = "done"

\* the base cubatures of the call are all rules on one axis
AllOneDimensional ==
    \A k \in 1..Len(args.base_cubatures) :
        /\ Len(args.base_cubatures[k].rule.nodes) = 1
        /\ Len(args.base_cubatures[k].lower_rule.nodes) = 1

\* the column of the product at which the multi-index idx sits, for factors
\* with m[k] points
ColumnOf(idx, m) ==
    1 + SeqSum([k \in 1..Len(m) |->
                  (idx[k] - 1) * SeqProd(SubSeq(m, k + 1, Len(m)))])

\* the pair built from the one-dimensional pairs factors holds every
\* combination of their points once, each with the product of its weights
Aligned(pair, factors) ==
    LET n == Len(factors)
        m == [k \in 1..n |-> Len(factors[k].weights)]
        indices == {idx \in [1..n -> 1..SetMax({m[k] : k \in 1..n})] :
                       \A k \in 1..n : idx[k] <= m[k]}
    IN  /\ Len(pair.nodes) = n
        /\ NCols(pair.nodes) = SeqProd(m)
        /\ Len(pair.weights) = SeqProd(m)
        /\ \A j \in 1..SeqProd(m) :
              Cardinality({idx \in indices :
                  \A k \in 1..n :
                      pair.nodes[k][j] = factors[k].nodes[1][idx[k]]}) >= 1
        /\ \A idx \in indices :
              LET j == ColumnOf(idx, m)
              IN  /\ j \in 1..SeqProd(m)
                  /\ \A k \in 1..n :
                        pair.nodes[k][j] = factors[k].nodes[1][idx[k]]
                  /\ pair.weights[j]
                       = SeqProd([k \in 1..n |-> factors[k].weights[idx[k]]])
        /\ \A idx1, idx2 \in indices :
              ColumnOf(idx1, m) = ColumnOf(idx2, m) => idx1 = idx2

\* C13: the rule of a Product of n one-dimensional rules with m_1..m_n
\* points has prod m_i columns, every multi-index (i_1, .., i_n) sits at
\* exactly one column, and that column holds the point
\* (x_1[i_1], .., x_n[i_n]) and the weight w_1[i_1] * ... * w_n[i_n]; the
\* lower rule is built the same way from the lower rules of the factors.
C13_ProductAligned ==
    ProductCalled /\ AllOneDimensional =>
        LET base == args.base_cubatures
        IN  /\ Aligned(result[1].rule, [k \in 1..Len(base) |-> base[k].rule])
            /\ Aligned(result[1].lower_rule,
                       [k \in 1..Len(base) |-> base[k].lower_rule])

C13_Witness ==
    /\ ProductCalled
    /\ AllOneDimensional
    /\ Len(args.base_cubatures) = 3
    /\ args.base_cubatures[1] # args.base_cubatures[2]
    /\ NCols(result[1].rule.nodes) = 18
    /\ NCols(result[1].lower_rule.nodes) = 4
    /\ \E j \in 1..18 : result[1].rule.weights[j] = 12

---------------------------------------------------------------------------
(* C14 *)

\* the pair built from factors with d_i rows of nodes and m_i points has
\* nodes of shape (d_1 + ... + d_n, m_1 * ... * m_n) and as many weights
ShapesPaired(pair, factors) ==
    LET n == Len(factors)
        d == [k \in 1..n |-> Len(factors[k].nodes)]
        m == [k \in 1..n |-> Len(factors[k].weights)]
    IN  /\ Len(pair.nodes) = SeqSum(d)
        /\ NCols(pair.nodes) = SeqProd(m)
        /\ Len(pair.weights) = SeqProd(m)

\* C14: the rule of a Product whose factors have spatial dimensions
\* d_1..d_n and m_1..m_n points, factors on several axes included, has
\* nodes of shape (d_1 + ... + d_n, m_1 * ... * m_n) and m_1 * ... * m_n
\* weights.
C14_ProductShapes ==
    ProductCalled =>
        ShapesPaired(result[1].rule,
                     [k \in 1..Len(args.base_cubatures) |->
                         args.base_cubatures[k].rule])

---------------------------------------------------------------------------
(* C15 *)

\* C15: for every npoints >= 2 the nodes of NewtonCotes(npoints, open=True)
\* are npoints pairwise distinct points strictly inside (-1, 1), equally
\* spaced with spacing h = 2/npoints.
C15_OpenNodes ==
    op = "NewtonCotes.rule" /\ pc = "done" /\ args.open =>
        LET nodes == result[1].nodes
            n == args.npoints
        IN  /\ Len(nodes) = n
            /\ \A i, j \in 1..n : i # j => nodes[i] # nodes[j]
            /\ \A j \in 1..n :
                  RatLt(RatInt(-1), nodes[j]) /\ RatLt(nodes[j], RatInt(1))
            /\ \A j \in 1..(n - 1) :
                  RatSub(nodes[j + 1], nodes[j]) = Rat(2, n)

---------------------------------------------------------------------------
(* C16 *)

GenzMalikCalled == op = "GenzMalik.rule" /\ pc = "done"

\* the family of a node of a Genz-Malik rule, read off its coordinates:
\* 1 for the centre, 2 and 3 for one coordinate at +-l_2 or +-l_3, 4 for two
\* coordinates at +-l_4, 5 for every coordinate at +-l_5; 0 for none of them
Family(x) ==
    LET nz == {i \in 1..Len(x) : x[i] # 0}
    IN  IF nz = {} THEN 1
        ELSE IF Cardinality(nz) = 1
                THEN IF \A i \in nz : Abs(x[i]) = Lambda2 THEN 2
                     ELSE IF \A i \in nz : Abs(x[i]) = Lambda3 THEN 3 ELSE 0
        ELSE IF Cardinality(nz) = 2 /\ \A i \in nz : Abs(x[i]) = Lambda4 THEN 4
        ELSE IF Cardinality(nz) = Len(x) /\ \A i \in nz : Abs(x[i]) = Lambda5
                THEN 5
        ELSE 0

\* C16: for ndim >= 2 GenzMalik(ndim).rule has 1 + 2(ndim + 1)ndim + 2^ndim
\* pairwise distinct nodes and lower_rule 1 + 2(ndim + 1)ndim, each as many
\* as the rule has weights; the nodes of lower_rule are those of rule in the
\* same order, without the 2^ndim nodes of the l_5 family; every node
\* carries the weight of its family.
C16_GenzMalikEmbedded ==
    GenzMalikCalled =>
        /\ result[1].rule.kind = "return"
        /\ result[1].lower_rule.kind = "return"
        /\ LET n == args.ndim
               H == result[1].rule.value
               L == result[1].lower_rule.value
               mL == 1 + 2 * (n + 1) * n
               mH == mL + 2 ^ n
           IN  /\ Len(H.nodes) = n /\ Len(L.nodes) = n
               /\ NCols(H.nodes) = mH /\ Len(H.weights) = mH
               /\ NCols(L.nodes) = mL /\ Len(L.weights) = mL
               /\ \A i, j \in 1..mH :
                     i # j => Column(H.nodes, i) # Column(H.nodes, j)
               /\ \A j \in 1..mL :
                     /\ Column(L.nodes, j) = Column(H.nodes, j)
                     /\ Family(Column(L.nodes, j)) \in 1..4
                     /\ L.weights[j]
                          = GenzMalikLowerFamilyWeights(n)[
                                Family(Column(L.nodes, j))]
               /\ \A j \in 1..mH :
                     /\ Family(Column(H.nodes, j)) = 5 <=> j > mL
                     /\ Family(Column(H.nodes, j)) \in 1..5
                     /\ H.weights[j]
                          = GenzMalikFamilyWeights(n)[
                                Family(Column(H.nodes, j))]

C16_Witness ==
    /\ GenzMalikCalled
    /\ args.ndim = 3
    /\ result[1].rule.kind = "return"
    /\ NCols(result[1].rule.value.nodes) = 33
    /\ NCols(result[1].lower_rule.value.nodes) = 25
    /\ Family(Column(result[1].rule.value.nodes, 33)) = 5
    /\ Family(Column(result[1].rule.value.nodes, 25)) = 4

---------------------------------------------------------------------------
(* The generator _distinct_permutations, step by step *)

\* longest iterable handed to _distinct_permutations
MaxItems == 4

\* the values the iterables are made of
ItemValues == {-1, 0, 1}

Iterables == UNION { [1..n -> ItemValues] : n \in 0..MaxItems }

\* gen = _distinct_permutations(iterable), run to its first yield:
\* items = sorted(iterable), size = len(items)
CallDistinctPermutations ==
    /\ pc = "start"
    /\ \E iterable \in Iterables :
          /\ args' = [iterable |-> iterable]
          /\ items' = Sorted(iterable)
    /\ yielded' = <<>>
    /\ op' = "_distinct_permutations"
    /\ pc' = "yield"
    /\ UNCHANGED <<rule, a, b, rtol, atol, max_subdivisions, est, err,
                   regions, region_k, pending, subdivisions, success,
                   outcome, result, fEvals>>

\* yield tuple(items)
YieldPermutation ==
    /\ op = "_distinct_permutations"
    /\ pc = "yield"
    /\ yielded' = Append(yielded, items)
    /\ pc' = "advance"
    /\ UNCHANGED <<op, args, rule, a, b, rtol, atol, max_subdivisions, est,
                   err, regions, region_k, pending, subdivisions, success,
                   outcome, result, fEvals, items>>

\* the rest of the loop body: return when no i has items[i] < items[i + 1],
\* else swap, reverse the tail and go round the while loop
AdvancePermutation ==
    /\ op = "_distinct_permutations"
    /\ pc = "advance"
    /\ IF Exhausted(items)
       THEN pc' = "done" /\ items' = items
       ELSE pc' = "yield" /\ items' = NextPermutation(items)
    /\ UNCHANGED <<op, args, rule, a, b, rtol, atol, max_subdivisions, est,
                   err, regions, region_k, pending, subdivisions, success,
                   outcome, result, fEvals, yielded>>

PermutationsNext ==
    \/ CallDistinctPermutations
    \/ YieldPermutation
    \/ AdvancePermutation

\* the consumer (itertools.chain in the Genz-Malik rules) asks for the next
\* tuple until the generator returns
PermutationsSpec ==
    Init /\ [][PermutationsNext]_vars /\ WF_vars(PermutationsNext)

---------------------------------------------------------------------------
(* C17 *)

PermutationsCalled == op = "_distinct_permutations"

PermutationsDone == PermutationsCalled /\ pc = "done"

\* s comes before t in lexicographic order
LexLt(s, t) ==
    \E p \in 1..Len(s) :
        /\ p <= Len(t)
        /\ s[p] < t[p]
        /\ \A q \in 1..(p - 1) : s[q] = t[q]

\* how often v occurs in s
Occurrences(v, s) == Cardinality({i \in 1..Len(s) : s[i] = v})

\* the distinct arrangements of the multiset of s
Arrangements(s) ==
    {t \in [1..Len(s) -> ItemValues] :
        \A v \in ItemValues : Occurrences(v, t) = Occurrences(v, s)}

RECURSIVE Factorial(_)
Factorial(n) == IF n <= 1 THEN 1 ELSE n * Factorial(n - 1)

\* n! / (c_1! ... c_k!)
Multinomial(s) ==
    Factorial(Len(s))
      \div (Factorial(Occurrences(-1, s)) * Factorial(Occurrences(0, s))
              * Factorial(Occurrences(1, s)))

\* what has been yielded so far is a strictly increasing run of
\* arrangements of the input from its sorted arrangement on, and at the end
\* it is all of them
PermutationsSoFar ==
    PermutationsCalled =>
        /\ \A i \in 1..Len(yielded) : yielded[i] \in Arrangements(args.iterable)
        /\ \A i \in 1..(Len(yielded) - 1) : LexLt(yielded[i], yielded[i + 1])
        /\ Len(yielded) >= 1 =>
              /\ yielded[1] \in Arrangements(args.iterable)
              /\ \A t \in Arrangements(args.iterable) :
                    t = yielded[1] \/ LexLt(yielded[1], t)
        /\ pc = "done" =>
              /\ {yielded[i] : i \in 1..Len(yielded)}
                   = Arrangements(args.iterable)
              /\ Len(yielded) = Cardinality(Arrangements(args.iterable))
              /\ Len(yielded) = Multinomial(args.iterable)
              /\ (\E i, j \in 1..Len(args.iterable) :
                     i # j /\ args.iterable[i] = args.iterable[j])
                   => Len(yielded) < Factorial(Len(args.iterable))

\* C17: for every finite input _distinct_permutations terminates, and yields
\* every distinct arrangement of the input multiset exactly once, in
\* strictly increasing lexicographic order from the sorted arrangement on;
\* it yields n!/(c_1! ... c_k!) tuples, fewer than n! when values repeat.
C17_DistinctPermutations ==
    /\ []PermutationsSoFar
    /\ PermutationsCalled ~> PermutationsDone

C17_Witness ==
    /\ PermutationsDone
    /\ args.iterable = <<1, 0, 1, -1>>
    /\ Len(yielded) = 12
    /\ yielded[1] = <<-1, 0, 1, 1>>
    /\ yielded[12] = <<1, 1, 0, -1>>

---------------------------------------------------------------------------
(* C18 *)

\* C18: a result with status "not_converged" has an error outside
\* atol + rtol * |estimate| in at least one component: a run whose last
\* permitted subdivision brings the error within the tolerance is not
\* reported as not_converged.
C18_NotConvergedOutsideTolerance ==
    Returned /\ result[1].status = "not_converged" =>
        /\ ~result[1].success
        /\ ~WithinTolerance(result[1].estimate, result[1].error,
                            result[1].atol, result[1].rtol)

---------------------------------------------------------------------------
(* C19 *)

\* what a region holds: its estimate, its error and its bounds
Held(r) == [estimate |-> r.estimate, error |-> r.error, a |-> r.a, b |-> r.b]

\* how many regions of the list hold v
Copies(v, heap) == Cardinality({i \in 1..Len(heap) : Held(heap[i]) = v})

AllHeld(heap) == {Held(heap[i]) : i \in 1..Len(heap)}

\* the list after is the list before with delta more copies of v, and every
\* other region holding what it held
Differ(before, after, v, delta) ==
    \A w \in AllHeld(before) \cup AllHeld(after) \cup {v} :
        Copies(w, after)
          = Copies(w, before) + (IF w = v THEN delta ELSE 0)

\* one step of the driver, as far as the working set and the caller's
\* arrays are concerned
StepFrame ==
    /\ InCubature => a' = a /\ b' = b
    /\ InLoop =>
          IF pc = "pop"
          THEN /\ Differ(regions, regions', Held(regions[1]), -1)
               /\ Box(region_k'.a, region_k'.b)
                    = Box(regions[1].a, regions[1].b)
               /\ Len(pending') = 2 ^ Dim
               /\ \A choice \in [1..Dim -> {0, 1}] :
                     \E p \in 1..Len(pending') :
                        Box(pending'[p][1], pending'[p][2])
                          = HalfBox(regions[1], choice)
          ELSE IF pc = "child" /\ pc' # "done"
          THEN /\ \E j \in 1..Len(regions') :
                     /\ Box(regions'[j].a, regions'[j].b)
                          = Box(Head(pending)[1], Head(pending)[2])
                     /\ est' = VAdd(est, regions'[j].estimate)
                     /\ err' = VAdd(err, regions'[j].error)
                     /\ Differ(regions, regions', Held(regions'[j]), 1)
               /\ pending' = Tail(pending)
               /\ pc' = "count" <=> pending' = <<>>
          ELSE /\ Differ(regions, regions', Held(NoRegion), 0)
               /\ pending' = pending

\* the regions returned are those of the working set
ResidualSet ==
    Returned =>
        /\ Len(result[1].regions) = Len(regions)
        /\ Differ(regions, result[1].regions, Held(NoRegion), 0)

\* C19: a refinement step takes exactly the popped region out of the
\* working set and puts exactly its 2^d children in; every other region of
\* the working set, and every region of the set returned, holds the
\* estimate, error and bounds it was created with, also while the
\* accumulator is updated in place (the first region's arrays are the
\* accumulator's); the caller's a and b are never modified.
C19_StepFrame ==
    /\ [][StepFrame]_vars
    /\ []ResidualSet

C19_Witness ==
    /\ InCubature
    /\ pc = "count"
    /\ Dim = 2
    /\ subdivisions = 1
    /\ Len(regions) = 7
    /\ \E i, j \in 1..Len(regions) :
          /\ regions[i].error # regions[j].error
          /\ regions[i].error # Zero

===========================================================================
